---- MODULE Spec2Model ----
(***************************************************************************)
(* ddns-route53: a dynamic-DNS updater for Route 53 (src/src/main.rs).     *)
(* The model follows App::new, App::run, App::refresh_public_ip and        *)
(* App::update_dns step by step.  Strings that the program inspects        *)
(* character by character (domain names, hosted zone names) are sequences  *)
(* of one-character strings; opaque strings (IPs, zone ids) are strings.   *)
(***************************************************************************)
EXTENDS Integers, Sequences, FiniteSets, TLC

VARIABLES
  args,         \* Args.domains, the positional arguments (moved out of
                \* by the loop of App::new)
  is_daemon,    \* App.is_daemon (Args.daemon)
  domains,      \* key set of App.domains
  order,        \* iteration order of the HashMap App.domains
  needs_update, \* Domain.needs_update, per key
  zone_id,      \* Domain.zone_id, per key
  public_ip,    \* App.public_ip
  zones,        \* local `zones` of update_dns (the listing of this pass)
  idx,          \* position of the running for-loop of update_dns in `order`
  pc,           \* control position of the process
  exit_code,    \* process exit code, NoExit while running
  passes,       \* number of the current iteration of the loop of run
  event,        \* the step taken last (external call and its outcome)
  pass_ip,      \* outcome of IP resolution in the current pass
  pass_list,    \* outcome of the zone listing in the current pass
  pass_match,   \* per domain, outcome of the zone match in the current pass
  pass_upsert,  \* per domain, outcome of the upsert call in the current pass
  nf_earlier,   \* domains whose match reported NotFound in an earlier pass
  ever_found,   \* domains for which some match attempt selected a zone
  pass_stale,   \* domains that were stale when the listing of this pass returned
  first_zone,   \* per domain, the first zone id its zone_id was set to
  published,    \* per domain, its most recent successful upsert: the IP
                \* it carried, whether there was one, and whether public_ip
                \* has changed since
  synced_ip,    \* the IP with which a pass upserted every domain successfully,
                \* while every pass since has resolved that same IP; else ""
  env,          \* assumption on the collaborators: whether, for which
                \* domain and with which IP they have become stable
  m_name,       \* matcher applied on its own: domain name
  m_zones,      \* matcher applied on its own: zone list
  m_result      \* matcher applied on its own: result

vars == <<args, is_daemon, domains, order, needs_update, zone_id, public_ip,
          zones, idx, pc, exit_code, passes, event, pass_ip, pass_list,
          pass_match, pass_upsert, nf_earlier, ever_found, pass_stale,
          first_zone, published, synced_ip, env, m_name, m_zones, m_result>>

appVars == <<args, is_daemon, domains, order, needs_update, zone_id,
             public_ip, zones, idx, exit_code, passes, event, pass_ip,
             pass_list, pass_match, pass_upsert, nf_earlier, ever_found,
             pass_stale, first_zone, published, synced_ip, env>>

matchVars == <<m_name, m_zones, m_result>>

(***************************************************************************)
(* Bounds                                                                  *)
(***************************************************************************)
MaxPasses == 3
MaxArgs == 2
MaxNameLen == 5
MaxZoneLen == 4
MaxZones == 2
MaxLivePasses == 1

(***************************************************************************)
(* Strings                                                                 *)
(***************************************************************************)
Dot == "."
Alphabet == {"a", Dot}

Strings(n) == UNION {[1..k -> Alphabet] : k \in 1..n}

Contains(s, c) == \E i \in 1..Len(s) : s[i] = c

EndsWith(s, suf) ==
  /\ Len(suf) <= Len(s)
  /\ SubSeq(s, Len(s) - Len(suf) + 1, Len(s)) = suf

\* str::trim_end_matches('.'): removes every trailing dot
RECURSIVE TrimEndDots(_)
TrimEndDots(s) ==
  IF s # <<>> /\ s[Len(s)] = Dot
    THEN TrimEndDots(SubSeq(s, 1, Len(s) - 1))
    ELSE s

\* str::strip_suffix: Some(rest) when s ends with suf, None otherwise
StripSuffix(s, suf) ==
  IF EndsWith(s, suf)
    THEN [some |-> TRUE, rest |-> SubSeq(s, 1, Len(s) - Len(suf))]
    ELSE [some |-> FALSE, rest |-> <<>>]

(***************************************************************************)
(* The zone matcher of update_dns                                          *)
(***************************************************************************)
NoZone == [some |-> FALSE, zone |-> [name |-> <<>>, id |-> ""]]

\* the filter closure: could hosted zone z contain the domain name?
ZoneFilterAnySuffix(name, z) ==
  StripSuffix(name, TrimEndDots(z.name)).some

ZoneFilter(name, z) ==
  LET r == StripSuffix(name, TrimEndDots(z.name))
  IN  r.some /\ (r.rest = <<>> \/ r.rest[Len(r.rest)] = Dot)

\* the key closure of max_by_key
ZoneKeyNegated(z) == 0 - Len(z.name)

ZoneKey(z) == Len(z.name)

\* Iterator::max_by_key on a non-empty sequence: the last element whose key
\* is maximal
RECURSIVE MaxByKey(_)
MaxByKey(zs) ==
  IF Len(zs) = 1
    THEN zs[1]
    ELSE LET best == MaxByKey(SubSeq(zs, 1, Len(zs) - 1))
             last == zs[Len(zs)]
         IN  IF ZoneKey(last) >= ZoneKey(best) THEN last ELSE best

FindZone(name, zs) ==
  LET cand == SelectSeq(zs, LAMBDA z : ZoneFilter(name, z))
  IN  IF cand = <<>> THEN NoZone ELSE [some |-> TRUE, zone |-> MaxByKey(cand)]

(***************************************************************************)
(* Inputs                                                                  *)
(***************************************************************************)
D1 == <<"a", Dot, "a", Dot, "b">>
D2 == <<"b", "a", Dot, "b">>
BadNoDot == <<"a", "b", "a">>
BadShort == <<Dot, "a">>
ArgPool == {D1, D2, BadNoDot, BadShort}
ArgLists == UNION {[1..k -> ArgPool] : k \in 1..MaxArgs}

ZoneAB == [name |-> <<"a", Dot, "b", Dot>>, id |-> "Z1"]
ZoneAAB == [name |-> <<"a", Dot, "a", Dot, "b">>, id |-> "Z2"]
ZoneB == [name |-> <<"b", Dot>>, id |-> "Z3"]
ZonePool == {ZoneAB, ZoneAAB, ZoneB}

Injective(f) == \A i, j \in DOMAIN f : f[i] = f[j] => i = j

\* a listing: hosted zones of the account, each at most once, in any order
Listings ==
  UNION {{l \in [1..k -> ZonePool] : Injective(l)} : k \in 0..Cardinality(ZonePool)}

IpPool == {"1.1.1.1", "2.2.2.2"}

NoExit == 0 - 1
Unpublished == [ip |-> "", any |-> FALSE, moved |-> FALSE]
Unstable == [stable |-> FALSE, d |-> <<>>, x |-> ""]
NoEvent == [op |-> "none", name |-> <<>>, zone |-> "", ip |-> "", ok |-> TRUE]

Orders(S) ==
  {o \in [1..Cardinality(S) -> S] : Injective(o)}

(***************************************************************************)
(* Initial state: the process has parsed its arguments                     *)
(***************************************************************************)
InitMatchIdle ==
  /\ m_name = <<>>
  /\ m_zones = <<>>
  /\ m_result = NoZone

Init ==
  /\ args \in ArgLists
  /\ is_daemon \in BOOLEAN
  /\ domains = {}
  /\ order = <<>>
  /\ needs_update = <<>>
  /\ zone_id = <<>>
  /\ public_ip = ""
  /\ zones = <<>>
  /\ idx = 1
  /\ pc = "new"
  /\ exit_code = NoExit
  /\ passes = 0
  /\ event = NoEvent
  /\ pass_ip = "none"
  /\ pass_list = "none"
  /\ pass_match = <<>>
  /\ pass_upsert = <<>>
  /\ nf_earlier = {}
  /\ ever_found = {}
  /\ pass_stale = {}
  /\ first_zone = <<>>
  /\ published = <<>>
  /\ synced_ip = ""
  /\ env = Unstable
  /\ InitMatchIdle

(***************************************************************************)
(* App::new                                                                *)
(***************************************************************************)
InvalidNameLenOnly(name) == Len(name) < 3

InvalidName(name) == Len(name) < 3 \/ ~Contains(name, Dot)

NewFail ==
  /\ pc = "new"
  /\ \E i \in 1..Len(args) : InvalidName(args[i])
  /\ pc' = "done"
  /\ exit_code' = 1
  /\ event' = [NoEvent EXCEPT !.op = "config_error", !.ok = FALSE]
  /\ UNCHANGED <<args, is_daemon, domains, order, needs_update, zone_id,
                 public_ip, zones, idx, passes, pass_ip, pass_list,
                 pass_match, pass_upsert, nf_earlier, ever_found>>
  /\ UNCHANGED <<pass_stale, first_zone>>
  /\ UNCHANGED <<published, synced_ip, env>>
  /\ UNCHANGED matchVars

NewOk ==
  /\ pc = "new"
  /\ \A i \in 1..Len(args) : ~InvalidName(args[i])
  /\ domains' = {args[i] : i \in 1..Len(args)}
  /\ order' \in Orders(domains')
  /\ needs_update' = [d \in domains' |-> TRUE]
  /\ zone_id' = [d \in domains' |-> ""]
  /\ public_ip' = ""
  /\ pass_match' = [d \in domains' |-> "none"]
  /\ pass_upsert' = [d \in domains' |-> "none"]
  /\ passes' = 1
  /\ pc' = "refresh"
  /\ event' = [NoEvent EXCEPT !.op = "new"]
  /\ args' = <<>>
  /\ UNCHANGED <<is_daemon, zones, idx, exit_code, pass_ip, pass_list,
                 nf_earlier, ever_found>>
  /\ first_zone' = [d \in domains' |-> ""]
  /\ UNCHANGED pass_stale
  /\ published' = [d \in domains' |-> Unpublished]
  /\ UNCHANGED <<synced_ip, env>>
  /\ UNCHANGED matchVars

(***************************************************************************)
(* App::refresh_public_ip                                                  *)
(***************************************************************************)
\* Ok(ip) arm, `if ip != self.public_ip { ... needs_update = true ... }`
AfterRefreshKeep(nu, ip) == nu

AfterRefresh(nu, ip) ==
  IF ip # public_ip THEN [d \in DOMAIN nu |-> TRUE] ELSE nu

\* Ok(ip) arm: get() returned a validated IPv4 string
RefreshOk ==
  /\ pc = "refresh"
  /\ \E ip \in IpPool :
       /\ needs_update' = AfterRefresh(needs_update, ip)
       /\ public_ip' = ip
       /\ event' = [NoEvent EXCEPT !.op = "get_ip", !.ip = ip]
  /\ pass_ip' = "ok"
  /\ pc' = "update_dns"
  /\ UNCHANGED <<args, is_daemon, domains, order, zone_id, zones, idx,
                 exit_code, passes, pass_list, pass_match, pass_upsert,
                 nf_earlier, ever_found>>
  /\ UNCHANGED <<pass_stale, first_zone>>
  /\ published' = IF public_ip' # public_ip
                    THEN [d \in domains |->
                           [published[d] EXCEPT !.moved = published[d].any]]
                    ELSE published
  /\ UNCHANGED <<synced_ip, env>>
  /\ UNCHANGED matchVars

\* Err arm: exit(1) unless daemon; in daemon mode the function returns
RefreshErr ==
  /\ pc = "refresh"
  /\ event' = [NoEvent EXCEPT !.op = "get_ip", !.ok = FALSE]
  /\ pass_ip' = "err"
  /\ IF ~is_daemon
       THEN pc' = "done" /\ exit_code' = 1
       ELSE pc' = "update_dns" /\ exit_code' = exit_code
  /\ UNCHANGED <<args, is_daemon, domains, order, needs_update, zone_id,
                 public_ip, zones, idx, passes, pass_list, pass_match,
                 pass_upsert, nf_earlier, ever_found>>
  /\ UNCHANGED <<pass_stale, first_zone>>
  /\ UNCHANGED <<published, synced_ip, env>>
  /\ UNCHANGED matchVars

(***************************************************************************)
(* App::run, after update_dns has returned                                 *)
(***************************************************************************)
\* `if !self.is_daemon { return; }`, then main returns Ok(()); else sleep
ReturnPc == IF ~is_daemon THEN "done" ELSE "sleep"
ReturnExit == IF ~is_daemon THEN 0 ELSE exit_code

(***************************************************************************)
(* App::update_dns                                                         *)
(***************************************************************************)
AnyStaleIgnored == TRUE

AnyStale == \E d \in domains : needs_update[d]

\* early return: no domain needs an update
UpdateDnsNoStale ==
  /\ pc = "update_dns"
  /\ ~AnyStale
  /\ pc' = ReturnPc
  /\ exit_code' = ReturnExit
  /\ event' = [NoEvent EXCEPT !.op = "no_stale"]
  /\ UNCHANGED <<args, is_daemon, domains, order, needs_update, zone_id,
                 public_ip, zones, idx, passes, pass_ip, pass_list,
                 pass_match, pass_upsert, nf_earlier, ever_found>>
  /\ UNCHANGED <<pass_stale, first_zone>>
  /\ UNCHANGED <<published, synced_ip, env>>
  /\ UNCHANGED matchVars

\* list_hosted_zones succeeded
ListZonesOk ==
  /\ pc = "update_dns"
  /\ AnyStale
  /\ zones' \in Listings
  /\ pass_list' = "ok"
  /\ idx' = 1
  /\ pc' = "match"
  /\ event' = [NoEvent EXCEPT !.op = "list_zones"]
  /\ UNCHANGED <<args, is_daemon, domains, order, needs_update, zone_id,
                 public_ip, exit_code, passes, pass_ip, pass_match,
                 pass_upsert, nf_earlier, ever_found>>
  /\ pass_stale' = {d \in domains : needs_update[d]}
  /\ UNCHANGED first_zone
  /\ UNCHANGED <<published, synced_ip, env>>
  /\ UNCHANGED matchVars

ListZonesErrFatal ==
  /\ pc = "update_dns"
  /\ AnyStale
  /\ pass_list' = "err"
  /\ event' = [NoEvent EXCEPT !.op = "list_zones", !.ok = FALSE]
  /\ pc' = "done"
  /\ exit_code' = 1
  /\ UNCHANGED <<args, is_daemon, domains, order, needs_update, zone_id,
                 public_ip, zones, idx, passes, pass_ip, pass_match,
                 pass_upsert, nf_earlier, ever_found>>
  /\ UNCHANGED <<pass_stale, first_zone>>
  /\ UNCHANGED <<published, synced_ip, env>>
  /\ UNCHANGED matchVars

ListZonesErrFallsThrough ==
  /\ pc = "update_dns"
  /\ AnyStale
  /\ pass_list' = "err"
  /\ event' = [NoEvent EXCEPT !.op = "list_zones", !.ok = FALSE]
  /\ IF ~is_daemon
       THEN pc' = "done" /\ exit_code' = 1
       ELSE pc' = "match" /\ exit_code' = exit_code
  /\ UNCHANGED <<args, is_daemon, domains, order, needs_update, zone_id,
                 public_ip, zones, idx, passes, pass_ip, pass_match,
                 pass_upsert, nf_earlier, ever_found>>
  /\ UNCHANGED <<pass_stale, first_zone>>
  /\ UNCHANGED <<published, synced_ip, env>>
  /\ UNCHANGED matchVars

\* list_hosted_zones failed: exit(1) unless daemon, else return
ListZonesErr ==
  /\ pc = "update_dns"
  /\ AnyStale
  /\ pass_list' = "err"
  /\ event' = [NoEvent EXCEPT !.op = "list_zones", !.ok = FALSE]
  /\ IF ~is_daemon
       THEN pc' = "done" /\ exit_code' = 1
       ELSE pc' = ReturnPc /\ exit_code' = ReturnExit
  /\ UNCHANGED <<args, is_daemon, domains, order, needs_update, zone_id,
                 public_ip, zones, idx, passes, pass_ip, pass_match,
                 pass_upsert, nf_earlier, ever_found>>
  /\ UNCHANGED <<pass_stale, first_zone>>
  /\ UNCHANGED <<published, synced_ip, env>>
  /\ UNCHANGED matchVars

\* the loop variable moves to the next entry; after the last entry of the
\* first loop the second loop starts
MatchBreak == idx' = 1 /\ pc' = "upsert"

MatchAdvance ==
  IF idx < Len(order)
    THEN idx' = idx + 1 /\ pc' = "match"
    ELSE idx' = 1 /\ pc' = "upsert"

\* first loop, the condition of the `continue`
SkipMatchNever(name) == FALSE

SkipMatch(name) == ~needs_update[name]

\* first loop, `if !state.needs_update { continue; }`
MatchSkip ==
  /\ pc = "match"
  /\ SkipMatch(order[idx])
  /\ MatchAdvance
  /\ event' = [NoEvent EXCEPT !.op = "match_skip", !.name = order[idx]]
  /\ UNCHANGED <<args, is_daemon, domains, order, needs_update, zone_id,
                 public_ip, zones, exit_code, passes, pass_ip, pass_list,
                 pass_match, pass_upsert, nf_earlier, ever_found>>
  /\ UNCHANGED <<pass_stale, first_zone>>
  /\ UNCHANGED <<published, synced_ip, env>>
  /\ UNCHANGED matchVars

\* first loop, a zone was selected: zone_id.replace_range(.., &zone.id)
MatchFound ==
  /\ pc = "match"
  /\ ~SkipMatch(order[idx])
  /\ LET name == order[idx]
         r == FindZone(name, zones)
     IN  /\ r.some
         /\ zone_id' = [zone_id EXCEPT ![name] = r.zone.id]
         /\ pass_match' = [pass_match EXCEPT ![name] = "found"]
         /\ ever_found' = ever_found \cup {name}
         /\ event' = [NoEvent EXCEPT !.op = "match", !.name = name,
                                      !.zone = r.zone.id]
  /\ MatchAdvance
  /\ UNCHANGED <<args, is_daemon, domains, order, needs_update, public_ip,
                 zones, exit_code, passes, pass_ip, pass_list, pass_upsert,
                 nf_earlier>>
  /\ first_zone' = IF first_zone[order[idx]] = ""
                     THEN [first_zone EXCEPT ![order[idx]] = zone_id'[order[idx]]]
                     ELSE first_zone
  /\ UNCHANGED pass_stale
  /\ UNCHANGED <<published, synced_ip, env>>
  /\ UNCHANGED matchVars

\* first loop, the let-else branch: no zone; exit(1) unless daemon, else
\* continue
MatchNotFound ==
  /\ pc = "match"
  /\ ~SkipMatch(order[idx])
  /\ LET name == order[idx]
     IN  /\ ~FindZone(name, zones).some
         /\ pass_match' = [pass_match EXCEPT ![name] = "notfound"]
         /\ event' = [NoEvent EXCEPT !.op = "match", !.name = name,
                                      !.ok = FALSE]
  /\ IF ~is_daemon
       THEN pc' = "done" /\ exit_code' = 1 /\ idx' = idx
       ELSE MatchAdvance /\ exit_code' = exit_code
  /\ UNCHANGED <<args, is_daemon, domains, order, needs_update, zone_id,
                 public_ip, zones, passes, pass_ip, pass_list, pass_upsert,
                 nf_earlier, ever_found>>
  /\ UNCHANGED <<pass_stale, first_zone>>
  /\ UNCHANGED <<published, synced_ip, env>>
  /\ UNCHANGED matchVars

\* the loop variable of the second loop moves on; after the last entry
\* update_dns returns to run
UpsertAdvance ==
  IF idx < Len(order)
    THEN idx' = idx + 1 /\ pc' = "upsert" /\ exit_code' = exit_code
    ELSE idx' = 1 /\ pc' = ReturnPc /\ exit_code' = ReturnExit

\* second loop, the condition of the `continue`
SkipUpsertNoStaleCheck(name) == zone_id[name] = ""

SkipUpsertNoZoneCheck(name) == ~needs_update[name]

SkipUpsert(name) == ~needs_update[name] \/ zone_id[name] = ""

\* second loop, the arms of the match on the result of upsert(...): what
\* they do to needs_update
AfterUpsertNever(nu, name, ok) == nu

AfterUpsertSpeculative(nu, name, ok) == [nu EXCEPT ![name] = FALSE]

AfterUpsert(nu, name, ok) == IF ok THEN [nu EXCEPT ![name] = FALSE] ELSE nu

UpsertSkip ==
  /\ pc = "upsert"
  /\ SkipUpsert(order[idx])
  /\ UpsertAdvance
  /\ event' = [NoEvent EXCEPT !.op = "upsert_skip", !.name = order[idx]]
  /\ UNCHANGED <<args, is_daemon, domains, order, needs_update, zone_id,
                 public_ip, zones, passes, pass_ip, pass_list, pass_match,
                 pass_upsert, nf_earlier, ever_found>>
  /\ UNCHANGED <<pass_stale, first_zone>>
  /\ UNCHANGED <<published, synced_ip, env>>
  /\ UNCHANGED matchVars

\* second loop, upsert(...) returned Ok(()): needs_update = false
UpsertOk ==
  /\ pc = "upsert"
  /\ ~SkipUpsert(order[idx])
  /\ LET name == order[idx]
     IN  /\ event' = [op |-> "upsert", name |-> name, zone |-> zone_id[name],
                      ip |-> public_ip, ok |-> TRUE]
         /\ needs_update' = AfterUpsert(needs_update, name, TRUE)
         /\ pass_upsert' = [pass_upsert EXCEPT ![name] = "ok"]
  /\ UpsertAdvance
  /\ UNCHANGED <<args, is_daemon, domains, order, zone_id, public_ip, zones,
                 passes, pass_ip, pass_list, pass_match, nf_earlier,
                 ever_found>>
  /\ UNCHANGED <<pass_stale, first_zone>>
  /\ published' = [published EXCEPT ![order[idx]] =
                     [ip |-> public_ip, any |-> TRUE, moved |-> FALSE]]
  /\ UNCHANGED <<synced_ip, env>>
  /\ UNCHANGED matchVars

UpsertErrNoExit ==
  /\ pc = "upsert"
  /\ ~SkipUpsert(order[idx])
  /\ LET name == order[idx]
     IN  /\ event' = [op |-> "upsert", name |-> name, zone |-> zone_id[name],
                      ip |-> public_ip, ok |-> FALSE]
         /\ needs_update' = AfterUpsert(needs_update, name, FALSE)
         /\ pass_upsert' = [pass_upsert EXCEPT ![name] = "err"]
  /\ UpsertAdvance
  /\ UNCHANGED <<args, is_daemon, domains, order, zone_id,
                 public_ip, zones, passes, pass_ip, pass_list, pass_match,
                 nf_earlier, ever_found>>
  /\ UNCHANGED <<pass_stale, first_zone>>
  /\ UNCHANGED <<published, synced_ip, env>>
  /\ UNCHANGED matchVars

\* second loop, upsert(...) returned Err: exit(1) unless daemon
UpsertErr ==
  /\ pc = "upsert"
  /\ ~SkipUpsert(order[idx])
  /\ LET name == order[idx]
     IN  /\ event' = [op |-> "upsert", name |-> name, zone |-> zone_id[name],
                      ip |-> public_ip, ok |-> FALSE]
         /\ needs_update' = AfterUpsert(needs_update, name, FALSE)
         /\ pass_upsert' = [pass_upsert EXCEPT ![name] = "err"]
  /\ IF ~is_daemon
       THEN pc' = "done" /\ exit_code' = 1 /\ idx' = idx
       ELSE UpsertAdvance
  /\ UNCHANGED <<args, is_daemon, domains, order, zone_id,
                 public_ip, zones, passes, pass_ip, pass_list, pass_match,
                 nf_earlier, ever_found>>
  /\ UNCHANGED <<pass_stale, first_zone>>
  /\ UNCHANGED <<published, synced_ip, env>>
  /\ UNCHANGED matchVars

(***************************************************************************)
(* App::run: tokio::time::sleep, then the next iteration of the loop       *)
(***************************************************************************)
\* the loop of run goes round: the locals of the finished pass are gone
NextPass ==
  /\ pc = "sleep"
  /\ pc' = "refresh"
  /\ zones' = <<>>
  /\ idx' = 1
  /\ pass_ip' = "none"
  /\ pass_list' = "none"
  /\ pass_match' = [d \in domains |-> "none"]
  /\ pass_upsert' = [d \in domains |-> "none"]
  /\ nf_earlier' = nf_earlier \cup {d \in domains : pass_match[d] = "notfound"}
  /\ event' = [NoEvent EXCEPT !.op = "sleep"]
  /\ UNCHANGED <<args, is_daemon, domains, order, needs_update, zone_id,
                 public_ip, exit_code, ever_found>>
  /\ pass_stale' = {}
  /\ UNCHANGED first_zone
  /\ synced_ip' = IF \A d \in domains : pass_upsert[d] = "ok"
                    THEN public_ip
                    ELSE IF pass_ip = "ok" /\ public_ip = synced_ip
                           THEN synced_ip
                           ELSE ""
  /\ UNCHANGED <<published, env>>
  /\ UNCHANGED matchVars

Sleep ==
  /\ passes < MaxPasses
  /\ passes' = passes + 1
  /\ NextPass

Next ==
  \/ NewFail
  \/ NewOk
  \/ RefreshOk
  \/ RefreshErr
  \/ UpdateDnsNoStale
  \/ ListZonesOk
  \/ ListZonesErr
  \/ MatchSkip
  \/ MatchFound
  \/ MatchNotFound
  \/ UpsertSkip
  \/ UpsertOk
  \/ UpsertErr
  \/ Sleep

Spec == Init /\ [][Next]_vars

(***************************************************************************)
(* The daemon with collaborators that become stable: from some point on    *)
(* IP resolution returns env.x, the listing succeeds with a zone whose     *)
(* name is a label-boundary suffix of env.d, and upserts for env.d succeed *)
(***************************************************************************)
InitLive ==
  /\ args \in {a \in ArgLists :
                /\ Injective(a)
                /\ \A i \in 1..Len(a) : ~InvalidName(a[i])}
  /\ is_daemon = TRUE
  /\ domains = {}
  /\ order = <<>>
  /\ needs_update = <<>>
  /\ zone_id = <<>>
  /\ public_ip = ""
  /\ zones = <<>>
  /\ idx = 1
  /\ pc = "new"
  /\ exit_code = NoExit
  /\ passes = 0
  /\ event = NoEvent
  /\ pass_ip = "none"
  /\ pass_list = "none"
  /\ pass_match = <<>>
  /\ pass_upsert = <<>>
  /\ nf_earlier = {}
  /\ ever_found = {}
  /\ pass_stale = {}
  /\ first_zone = <<>>
  /\ published = <<>>
  /\ synced_ip = ""
  /\ env = Unstable
  /\ InitMatchIdle

\* the collaborators become stable, for some configured domain and some IP;
\* the point from which they are stable is taken between two passes
Stabilize ==
  /\ ~env.stable
  /\ pc \in {"refresh", "sleep"}
  /\ \E d \in domains, x \in IpPool : env' = [stable |-> TRUE, d |-> d, x |-> x]
  /\ UNCHANGED <<args, is_daemon, domains, order, needs_update, zone_id,
                 public_ip, zones, idx, pc, exit_code, passes, event, pass_ip,
                 pass_list, pass_match, pass_upsert, nf_earlier, ever_found,
                 pass_stale, first_zone, published, synced_ip>>
  /\ UNCHANGED matchVars

\* what stable collaborators answer to the call of the step
EnvAllows ==
  env.stable =>
    /\ event'.op = "get_ip" => (event'.ok /\ event'.ip = env.x)
    /\ event'.op = "list_zones" =>
         /\ event'.ok
         /\ \E i \in 1..Len(zones') :
              LET z == zones'[i].name
                  s == IF z[Len(z)] = Dot THEN SubSeq(z, 1, Len(z) - 1) ELSE z
              IN  env.d = s \/ EndsWith(env.d, <<Dot>> \o s)
    /\ (event'.op = "upsert" /\ event'.name = env.d) => event'.ok

\* the sleep; the collaborators become stable during the first
\* MaxLivePasses passes at the latest, and passes are counted up to there
SleepLive ==
  /\ env.stable \/ passes < MaxLivePasses
  /\ passes' = IF passes < MaxLivePasses THEN passes + 1 ELSE passes
  /\ NextPass

LiveStep ==
  /\ \/ NewOk
     \/ RefreshOk
     \/ RefreshErr
     \/ UpdateDnsNoStale
     \/ ListZonesOk
     \/ ListZonesErr
     \/ MatchSkip
     \/ MatchFound
     \/ MatchNotFound
     \/ UpsertSkip
     \/ UpsertOk
     \/ UpsertErr
     \/ SleepLive
  /\ EnvAllows

NextLive ==
  \/ Stabilize
  \/ LiveStep

\* the process is never suspended for good: every await returns
SpecLive == InitLive /\ [][NextLive]_vars /\ WF_vars(LiveStep)

(***************************************************************************)
(* The zone matcher applied on its own to bounded inputs                   *)
(***************************************************************************)
\* hosted zone names as Route 53 returns them, with or without the trailing
\* dot: no empty label, hence at most one trailing dot
ValidZoneName(s) ==
  /\ s[1] # Dot
  /\ \A i \in 1..(Len(s) - 1) : ~(s[i] = Dot /\ s[i + 1] = Dot)

ZoneNames == {s \in Strings(MaxZoneLen) : ValidZoneName(s)}

ZoneIdOf(i) == <<"Z1", "Z2", "Z3", "Z4", "Z5">>[i]

ZoneNameLists == UNION {[1..k -> ZoneNames] : k \in 0..MaxZones}

InitMatch ==
  /\ args = <<D1>>
  /\ is_daemon = FALSE
  /\ domains = {}
  /\ order = <<>>
  /\ needs_update = <<>>
  /\ zone_id = <<>>
  /\ public_ip = ""
  /\ zones = <<>>
  /\ idx = 1
  /\ pc = "m_in"
  /\ exit_code = NoExit
  /\ passes = 0
  /\ event = NoEvent
  /\ pass_ip = "none"
  /\ pass_list = "none"
  /\ pass_match = <<>>
  /\ pass_upsert = <<>>
  /\ nf_earlier = {}
  /\ ever_found = {}
  /\ pass_stale = {}
  /\ first_zone = <<>>
  /\ published = <<>>
  /\ synced_ip = ""
  /\ env = Unstable
  /\ m_name \in Strings(MaxNameLen)
  /\ \E ns \in ZoneNameLists :
       m_zones = [i \in 1..Len(ns) |-> [name |-> ns[i], id |-> ZoneIdOf(i)]]
  /\ m_result = NoZone

ApplyMatch ==
  /\ pc = "m_in"
  /\ m_result' = FindZone(m_name, m_zones)
  /\ pc' = "m_out"
  /\ UNCHANGED <<m_name, m_zones>>
  /\ UNCHANGED appVars

NextMatch == ApplyMatch

SpecMatch == InitMatch /\ [][NextMatch]_vars

(***************************************************************************)
(* Properties                                                              *)
(***************************************************************************)
\* a zone name without its trailing dot
StripTrailingDot(z) ==
  IF z # <<>> /\ z[Len(z)] = Dot THEN SubSeq(z, 1, Len(z) - 1) ELSE z

\* d is the zone's suffix or ends with "." followed by the suffix
Qualifies(d, z) ==
  LET zs == StripTrailingDot(z)
  IN  d = zs \/ EndsWith(d, <<Dot>> \o zs)

SuffixLen(z) == Len(StripTrailingDot(z))

\* C1: the matcher finds a zone iff some listed zone z has d == z' or d ends
\* with "." + z' (z' = z without its trailing dot), and the zone it finds is
\* such a zone; a zone that is only a non-label-boundary suffix of d never
\* qualifies, so with that single zone the match reports NotFound.
C1_MatchIffLabelSuffix ==
  pc = "m_out" =>
    /\ m_result.some <=>
         \E i \in 1..Len(m_zones) : Qualifies(m_name, m_zones[i].name)
    /\ m_result.some => Qualifies(m_name, m_result.zone.name)

C1_Witness ==
  /\ pc = "m_out"
  /\ Len(m_zones) = 1
  /\ EndsWith(m_name, StripTrailingDot(m_zones[1].name))
  /\ ~Qualifies(m_name, m_zones[1].name)
  /\ ~m_result.some

\* C2: when at least one listed zone qualifies, the matcher selects a
\* qualifying zone whose suffix (name without trailing dot) is the longest
\* among the qualifying zones, whatever the mix of trailing dots and the
\* order of the list.
C2_LongestSuffixWins ==
  (pc = "m_out" /\ \E i \in 1..Len(m_zones) : Qualifies(m_name, m_zones[i].name))
    => /\ m_result.some
       /\ \E i \in 1..Len(m_zones) : m_zones[i] = m_result.zone
       /\ Qualifies(m_name, m_result.zone.name)
       /\ \A j \in 1..Len(m_zones) :
            Qualifies(m_name, m_zones[j].name)
              => SuffixLen(m_zones[j].name) <= SuffixLen(m_result.zone.name)

C2_Witness ==
  /\ pc = "m_out"
  /\ Len(m_zones) = 2
  /\ Qualifies(m_name, m_zones[1].name)
  /\ Qualifies(m_name, m_zones[2].name)
  /\ SuffixLen(m_zones[1].name) > SuffixLen(m_zones[2].name)
  /\ m_zones[1].name = StripTrailingDot(m_zones[1].name)
  /\ m_zones[2].name # StripTrailingDot(m_zones[2].name)
  /\ m_result.zone = m_zones[1]

InPass == {"update_dns", "match", "upsert"}

\* C3: a domain goes from stale to fresh only in the step in which an upsert
\* call for that same domain returned success; a failed upsert call leaves
\* the domain stale, and no other step clears a domain's staleness.
C3_FreshOnlyOnUpsertSuccess ==
  [][/\ \A d \in domains :
          (needs_update[d] /\ ~needs_update'[d])
            => (event'.op = "upsert" /\ event'.name = d /\ event'.ok)
     /\ (event'.op = "upsert" /\ ~event'.ok) => needs_update'[event'.name]
    ]_vars

C3_Witness ==
  \E d, e \in domains :
    /\ pass_upsert[d] = "ok" /\ ~needs_update[d]
    /\ pass_upsert[e] = "err" /\ needs_update[e]

\* C4: in daemon mode, a pass whose IP resolution failed makes no zone
\* listing call, no zone match and no upsert call.
C4_IpFailureSkipsPass ==
  (is_daemon /\ pass_ip = "err")
    => /\ pass_list = "none"
       /\ \A d \in domains : pass_match[d] = "none" /\ pass_upsert[d] = "none"

\* C5: in a pass in which the matcher reported NotFound for a domain, no
\* upsert call is made for that domain and the domain stays stale, whatever
\* happened to it in earlier passes.
C5_NotFoundNoUpsert ==
  \A d \in domains :
    pass_match[d] = "notfound" => (pass_upsert[d] = "none" /\ needs_update[d])

\* C6: in daemon mode, at the end of a pass whose zone listing succeeded,
\* every domain that was stale and has a qualifying zone in the listing has
\* received an upsert call in that pass, whatever happened to the other
\* domains and whatever the iteration order.
C6_EveryMatchableDomainAttempted ==
  (is_daemon /\ pc = "sleep" /\ pass_list = "ok")
    => \A d \in pass_stale :
         (\E i \in 1..Len(zones) : Qualifies(d, zones[i].name))
           => pass_upsert[d] # "none"

C6_Witness ==
  /\ is_daemon
  /\ pc = "sleep"
  /\ Len(order) = 2
  /\ pass_match[order[1]] = "notfound"
  /\ pass_upsert[order[1]] = "none"
  /\ pass_upsert[order[2]] # "none"

\* C7: in one-shot mode the process runs at most one pass, and once it has
\* ended its exit code is 0 iff IP resolution, zone listing, the match of
\* every configured domain and the upsert of every configured domain all
\* succeeded; otherwise the exit code is non-zero.
C7_OneShotExitCode ==
  ~is_daemon =>
    /\ passes <= 1
    /\ pc # "sleep"
    /\ pc = "done" =>
         /\ exit_code \in {0, 1}
         /\ exit_code = 0 <=>
              /\ pass_ip = "ok"
              /\ pass_list = "ok"
              /\ \A d \in domains :
                   /\ pass_match[d] = "found"
                   /\ pass_upsert[d] = "ok"

C7_Witness ==
  /\ ~is_daemon
  /\ pc = "done"
  /\ exit_code = 0
  /\ Cardinality(domains) = 2

\* C8: in daemon mode, once started, no failure of IP resolution, zone
\* listing, zone matching or upsert ends the process: every pass ends in the
\* sleep, and the sleep is followed by the start of another pass.
C8_DaemonNeverExits ==
  [][(is_daemon /\ pc # "new") =>
       /\ pc' # "done"
       /\ exit_code' = NoExit
       /\ (pc \in InPass /\ pc' \notin InPass) => pc' = "sleep"
       /\ pc = "sleep" => (pc' = "refresh" /\ passes' = passes + 1)
    ]_vars

C8_Witness ==
  /\ is_daemon
  /\ pc = "refresh"
  /\ passes >= 2
  /\ public_ip = ""
  /\ \E d \in domains : zone_id[d] = ""
  /\ \E d \in domains : zone_id[d] # "" /\ needs_update[d]

\* C9 as stated: once a domain's zone_id is non-empty it never changes.
C9_ZoneIdNeverChanges ==
  [][\A d \in domains : zone_id[d] # "" => zone_id'[d] = zone_id[d]]_vars

\* C9 as amended: a zone_id changes only in the zone-match step of its own
\* domain while that domain is stale, and then to the non-empty id of the
\* qualifying zone with the longest suffix in the listing of that pass (so a
\* set zone_id never becomes empty again, but a later listing can replace
\* it); a NotFound and every other step leave every zone_id as it was.
C9_ZoneIdChangesOnlyByRematch ==
  [][\A d \in domains :
       zone_id'[d] # zone_id[d] =>
         /\ pc = "match"
         /\ order[idx] = d
         /\ needs_update[d]
         /\ zone_id'[d] # ""
         /\ \E i \in 1..Len(zones) :
              /\ zones[i].id = zone_id'[d]
              /\ Qualifies(d, zones[i].name)
              /\ \A j \in 1..Len(zones) :
                   Qualifies(d, zones[j].name)
                     => SuffixLen(zones[j].name) <= SuffixLen(zones[i].name)
    ]_vars

C9_Witness ==
  \E d \in domains :
    /\ first_zone[d] # ""
    /\ zone_id[d] # first_zone[d]
    /\ event.op = "match"
    /\ event.name = d

\* C10 as stated: in daemon mode, a domain whose match reported NotFound in
\* an earlier pass receives no upsert call in any later pass.
C10_NotFoundIsPermanent ==
  is_daemon => \A d \in nf_earlier : pass_upsert[d] = "none"

\* C10 as amended: in daemon mode a NotFound does not skip the domain for
\* good: in every later pass whose listing succeeds while the domain is
\* stale the match is attempted again, and the domain receives upsert calls
\* once an attempt has selected a zone; only while no attempt has ever
\* selected a zone for it (its zone_id is empty) is no upsert call made.
C10_NoUpsertUntilFound ==
  is_daemon =>
    /\ \A d \in domains :
         pass_upsert[d] # "none" => (d \in ever_found /\ zone_id[d] # "")
    /\ (pc \in {"upsert", "sleep"} /\ pass_list = "ok")
         => \A d \in pass_stale : pass_match[d] # "none"

C10_Witness ==
  /\ is_daemon
  /\ \E d \in nf_earlier :
       /\ first_zone[d] = zone_id[d]
       /\ pass_match[d] = "found"
       /\ pass_upsert[d] # "none"

NoCallsInPass ==
  /\ pass_list = "none"
  /\ \A d \in domains : pass_upsert[d] = "none"

\* C11: in daemon mode, after a pass that upserted every domain successfully
\* with IP x, every following pass that resolves the same x makes no zone
\* listing call and no upsert call; and no zone listing call is ever made by
\* a pass that has no stale domain after its IP step.
C11_NoCallsWhenNothingStale ==
  [][/\ event'.op = "list_zones" => \E d \in domains : needs_update[d]
     /\ (is_daemon /\ synced_ip' # "" /\ pass_ip' = "ok"
           /\ public_ip' = synced_ip')
          => (NoCallsInPass' /\ \A d \in domains : ~needs_update'[d])
    ]_vars

C11_Witness ==
  /\ is_daemon
  /\ pc = "sleep"
  /\ synced_ip # ""
  /\ pass_ip = "ok"
  /\ public_ip = synced_ip
  /\ NoCallsInPass

\* C12: in daemon mode a failed zone listing is followed by no zone match
\* and no upsert call in that pass; the step of the failed call and every
\* step up to the start of the next pass leave every needs_update, every
\* zone_id and public_ip as they were.
C12_ListFailureAbandonsPass ==
  [][/\ (is_daemon /\ pass_list' = "err") =>
          /\ pc' = "sleep"
          /\ \A d \in domains :
               pass_match'[d] = "none" /\ pass_upsert'[d] = "none"
          /\ needs_update' = needs_update
          /\ zone_id' = zone_id
          /\ public_ip' = public_ip
     /\ (is_daemon /\ pass_list = "err") =>
          /\ pc' = "refresh"
          /\ needs_update' = needs_update
          /\ zone_id' = zone_id
          /\ public_ip' = public_ip
    ]_vars

C12_Witness ==
  /\ is_daemon
  /\ pc = "sleep"
  /\ pass_list = "err"
  /\ pass_ip = "ok"
  /\ \E d \in domains : needs_update[d] /\ zone_id[d] # ""
  /\ \E d \in domains : ~needs_update[d]

\* a name the configuration must reject: shorter than 3 or without a dot
Rejected(name) == Len(name) < 3 \/ \A i \in 1..Len(name) : name[i] # Dot

NoNetworkCallYet ==
  /\ public_ip = ""
  /\ pass_ip = "none"
  /\ pass_list = "none"
  /\ passes = 0
  /\ domains = {}

\* C13: if any argument is shorter than 3 or has no dot, startup ends with a
\* configuration error (non-zero exit) before any IP resolution, zone
\* listing or upsert call, wherever the name stands and in either mode; if
\* every argument is acceptable there is no configuration error.
C13_ConfigErrorBeforeIo ==
  [][pc = "new" =>
       /\ NoNetworkCallYet
       /\ (\E i \in 1..Len(args) : Rejected(args[i]))
            <=> event'.op = "config_error"
       /\ event'.op = "config_error" =>
            /\ pc' = "done"
            /\ exit_code' = 1
            /\ NoNetworkCallYet'
    ]_vars

C13_Witness ==
  /\ is_daemon
  /\ pc = "done"
  /\ event.op = "config_error"
  /\ Len(args) = 2
  /\ ~Rejected(args[1])
  /\ Rejected(args[2])
  /\ Len(args[2]) >= 3

\* C14 as stated: in every state and for every domain, needs_update is true
\* exactly when the IP of the domain's most recent successful upsert (empty
\* if none) differs from public_ip.
C14_FlagEqualsIpComparison ==
  \A d \in domains : needs_update[d] <=> (published[d].ip # public_ip)

\* C14 as amended: needs_update is true whenever the IP of the most recent
\* successful upsert differs from public_ip, and it is true although the two
\* are equal exactly when the domain has had no successful upsert yet or
\* public_ip has changed (away and back) since that upsert.
C14_FlagCoversIpComparison ==
  \A d \in domains :
    /\ published[d].ip # public_ip => needs_update[d]
    /\ (needs_update[d] /\ published[d].ip = public_ip)
         <=> /\ published[d].ip = public_ip
             /\ (~published[d].any \/ published[d].moved)

C14_Witness ==
  \E d \in domains :
    /\ published[d].any
    /\ published[d].moved
    /\ published[d].ip = public_ip
    /\ needs_update[d]
    /\ pass_upsert[d] = "none"
    /\ pc = "update_dns"

\* C15: every upsert call is made for a configured domain that is stale at
\* the time of the call, with the zone id the matcher selected for it (in
\* this pass: a qualifying zone of this listing with the longest suffix)
\* and with public_ip as it is at the time of the call; a domain whose
\* upsert succeeded in a pass is fresh for the rest of that pass.
C15_UpsertCarriesMatchedZoneAndIp ==
  [][/\ event'.op = "upsert" =>
          /\ pc = "upsert"
          /\ event'.name \in domains
          /\ event'.name = order[idx]
          /\ needs_update[event'.name]
          /\ event'.name \in ever_found
          /\ event'.zone = zone_id[event'.name]
          /\ event'.zone # ""
          /\ event'.ip = public_ip
          /\ public_ip' = public_ip
          /\ pass_match[event'.name] = "found" =>
               \E i \in 1..Len(zones) :
                 /\ zones[i].id = event'.zone
                 /\ Qualifies(event'.name, zones[i].name)
                 /\ \A j \in 1..Len(zones) :
                      Qualifies(event'.name, zones[j].name)
                        => SuffixLen(zones[j].name) <= SuffixLen(zones[i].name)
     /\ \A d \in domains :
          pass_upsert'[d] = "ok" =>
            (~needs_update'[d] /\ published'[d].ip = public_ip')
    ]_vars

C15_Witness ==
  /\ pc \in {"sleep", "done"}
  /\ pass_ip = "ok"
  /\ pass_list = "ok"
  /\ Len(order) = 2
  /\ \A d \in domains :
       /\ pass_match[d] = "found"
       /\ pass_upsert[d] = "ok"
       /\ ~needs_update[d]
  /\ zone_id[order[1]] # zone_id[order[2]]

\* C16: a successful IP resolution with a value different from public_ip
\* (the first one included) sets public_ip to it and leaves every domain
\* stale; one with the value public_ip already holds changes no
\* needs_update; neither changes a zone_id.
C16_IpStepFrame ==
  [][(event'.op = "get_ip" /\ event'.ok) =>
       /\ public_ip' = event'.ip
       /\ zone_id' = zone_id
       /\ event'.ip # public_ip => \A d \in domains : needs_update'[d]
       /\ event'.ip = public_ip => needs_update' = needs_update
    ]_vars

C16_Witness ==
  /\ event.op = "get_ip"
  /\ event.ok
  /\ \E d \in domains :
       /\ published[d].any
       /\ published[d].moved
       /\ published[d].ip # public_ip
       /\ needs_update[d]
       /\ zone_id[d] # ""

\* C17: in a pass the zone match of every stale domain is over before the
\* first upsert call; so in one-shot mode, if some configured domain has no
\* qualifying zone in the listing, no upsert call is made for any domain
\* and the process ends with a non-zero exit code.
C17_MatchingBeforeUpserts ==
  /\ (\E e \in domains : pass_upsert[e] # "none")
       => /\ pc \in {"upsert", "sleep", "done"}
          /\ \A d \in pass_stale : pass_match[d] # "none"
  /\ (~is_daemon /\ pass_list = "ok"
        /\ \E d \in domains :
             \A i \in 1..Len(zones) : ~Qualifies(d, zones[i].name))
       => /\ \A e \in domains : pass_upsert[e] = "none"
          /\ pc \in {"match", "done"}
          /\ pc = "done" => exit_code = 1

C17_Witness ==
  /\ ~is_daemon
  /\ pc = "done"
  /\ exit_code = 1
  /\ Len(order) = 2
  /\ pass_match[order[1]] = "found"
  /\ pass_match[order[2]] = "notfound"
  /\ \A e \in domains : pass_upsert[e] = "none"

\* C19: a domain that is not stale has had a successful upsert, and the
\* most recent one carried the IP that public_ip holds now.
C19_FreshMeansPublishedCurrentIp ==
  \A d \in domains :
    ~needs_update[d] =>
      /\ published[d].any
      /\ ~published[d].moved
      /\ published[d].ip = public_ip

C19_Witness ==
  /\ pc = "update_dns"
  /\ pass_ip = "ok"
  /\ public_ip # ""
  /\ \E d \in domains : ~needs_update[d] /\ published[d].ip = public_ip
  /\ \E d \in domains : needs_update[d] /\ published[d].ip # public_ip

\* C20: every upsert call carries a non-empty IP, and no zone listing call
\* and no upsert call is made while public_ip is still empty.
C20_NoCallWithoutIp ==
  event.op \in {"list_zones", "upsert"} =>
    /\ public_ip # ""
    /\ event.op = "upsert" => event.ip \in IpPool

\* env.d is fresh with env.x published
StableAndFresh ==
  /\ env.stable
  /\ ~needs_update[env.d]
  /\ published[env.d].any
  /\ published[env.d].ip = env.x
  /\ public_ip = env.x

\* C18: in daemon mode, once IP resolution keeps returning x, the listing
\* keeps succeeding with a zone that qualifies for d and the upserts for d
\* succeed, d eventually becomes fresh with x published and stays fresh,
\* whatever failed in earlier passes (env.stable, once true, stays true).
C18_EventuallyFreshForGood == <>[](env.stable => StableAndFresh)

C18_Witness ==
  /\ StableAndFresh
  /\ env.d \in nf_earlier
  /\ published[env.d].moved = FALSE
  /\ \E e \in domains : needs_update[e]

====
